---- MODULE Spec2Model ----
(***************************************************************************)
(* Model of src/lib.rs of libtracecmd-rs: the Input wrapper of a native    *)
(* tracecmd_input handle (Input::new, Input::find_event, Drop for Input),  *)
(* and the Handler trait's process / process_multi with the adapter        *)
(* c_callback that carries the caller's accumulator across the native      *)
(* callback through one opaque pointer.                                    *)
(*                                                                         *)
(* Two caller threads each open their own files and run iteration calls.   *)
(* The adapter is modelled statement by statement, so that the adapter     *)
(* invocations of the two threads interleave.  The native library          *)
(* (tracecmd_open, tracecmd_iterate_events, tracecmd_iterate_events_multi, *)
(* tracecmd_get_tep, tep_find_event_by_record) is outside the repository;  *)
(* its results are nondeterministic inputs, and the iteration loop follows *)
(* the protocol the specification states for it.                           *)
(*                                                                         *)
(* AccumulatedData is modelled by a type that owns one resource (as a Box  *)
(* or a Vec with capacity does) and a counter: the value [count, res].     *)
(* Default::default() acquires a fresh resource.  A byte copy              *)
(* (ptr::copy_nonoverlapping) copies the value as it is, resource          *)
(* reference included, and runs no teardown.                               *)
(*                                                                         *)
(* The per-event function (Handler::callback) is the caller's code: it     *)
(* counts the record, may replace the resource its accumulator owns, may   *)
(* call Input::find_event, may swap the Input it is lent for one of its    *)
(* own, and returns any status.  A panic inside the extern "C" adapter     *)
(* aborts the process.                                                     *)
(*                                                                         *)
(* Spec is one caller thread with the whole life cycle (open, iterate,     *)
(* close); SpecConc is two caller threads, each with its capture open,     *)
(* whose iteration calls interleave statement by statement.                *)
(***************************************************************************)
EXTENDS Integers, Sequences, FiniteSets, TLC

VARIABLES
    pc,          \* pc[t]: where thread t is
    inputs,      \* inputs[t]: the Input values thread t owns (their handles)
    nrecs,       \* nrecs[h]: records of the capture behind handle h, -1 before it is opened
    closeCount,  \* closeCount[h]: how often tracecmd_close ran on h
    result,      \* result[t]: the value the last call returned to the caller
    mem,         \* mem[a]: the accumulator bytes at address a (the `data` local of process)
    loop,        \* loop[t]: the native iteration loop's state and arguments
    cb,          \* cb[t]: the locals of the running c_callback
    log,         \* log[t]: the invocations of Handler::callback in this call
    deliv,       \* deliv[t]: the records the native loop delivered in this call
    drops,       \* drops[t][k]: how often the resource <<t, k>> was torn down
    starts,      \* starts[t]: how often the current call started the native loop
    found        \* found[t]: what Input::find_event returned inside the running callback

vars == <<pc, inputs, nrecs, closeCount, result, mem, loop, cb, log, deliv,
          drops, starts, found>>

(* ------------------------------ bounds -------------------------------- *)

\* records per capture file
MaxRecs == 2

Threads == {1, 2}

\* the files of thread t; the native open of path p returns the handle p
PathsOf(t) == {2 * t - 1, 2 * t}

Handles == UNION {PathsOf(t) : t \in Threads}

\* nonzero statuses the per-event function returns
StopCodes == {1, 2}

\* nonzero statuses the native loop produces itself
NativeErrs == {-1}

\* event names as the bytes of a C string: "a", "e-acute", a lone 0xFF, a cut 2-byte sequence
Names == {<<97>>, <<195, 169>>, <<255>>, <<195>>}

(* ------------------------------ values -------------------------------- *)

NULL == 0

NonNull == {1}

NoRes == <<0, 0>>

\* no accumulator: an uninitialised or moved-from slot
NoAcc == [count |-> -1, res |-> NoRes]

NoResult ==
    [kind |-> "none", ok |-> FALSE, err |-> "none", native |-> NULL,
     input |-> NULL, acc |-> NoAcc, code |-> 0]

NoLoop ==
    [kind |-> "none", handles |-> <<>>, nr |-> 0, raw |-> 0, stop |-> 0, ret |-> 0]

NoCb ==
    [input |-> NULL, wrapper |-> NULL, rec |-> <<0, 0>>, raw |-> 0,
     dflt |-> NoRes, data |-> NoAcc, res |-> 0]

NoFound ==
    [kind |-> "none", err |-> "none", looked |-> FALSE, tep |-> NULL,
     ev |-> NULL, bytes |-> <<>>, name |-> <<>>]

Ok_Input(h) ==
    [NoResult EXCEPT !.kind = "new", !.ok = TRUE, !.native = h, !.input = h]

Err_Open(h) ==
    [NoResult EXCEPT !.kind = "new", !.err = "Open", !.native = h]

Ok_Data(acc) ==
    [NoResult EXCEPT !.kind = "process", !.ok = TRUE, !.acc = acc]

Err_Code(ret) ==
    [NoResult EXCEPT !.kind = "process", !.err = "code", !.code = ret]

(* ------------------------------ helpers ------------------------------- *)

\* the teardown (Drop) of the resource r
DropRes(d, r) == [d EXCEPT ![r[1]][r[2]] = @ + 1]

\* how many records of the i-th handle the native loop of thread t has delivered
Count(t, i) == Cardinality({j \in 1..Len(deliv[t]) : deliv[t][j][1] = i})

\* the records the native loop still holds for its i-th handle
Remaining(t, i) ==
    LET n == nrecs[loop[t].handles[i]]
    IN  IF n > Count(t, i) THEN n - Count(t, i) ELSE 0

RemoveAt(s, i) == SubSeq(s, 1, i - 1) \o SubSeq(s, i + 1, Len(s))

\* str::from_utf8 on the bytes of the alphabet of Names: ASCII, and 2-byte
\* sequences (lead 0xC2..0xDF, continuation 0x80..0xBF); 0xFF is never valid
RECURSIVE Utf8Valid(_)
Utf8Valid(s) ==
    IF s = <<>> THEN TRUE
    ELSE IF s[1] < 128 THEN Utf8Valid(Tail(s))
    ELSE IF s[1] >= 194 /\ s[1] <= 223
         THEN /\ Len(s) >= 2
              /\ s[2] >= 128
              /\ s[2] <= 191
              /\ Utf8Valid(Tail(Tail(s)))
    ELSE FALSE

(* ------------------------------- Init --------------------------------- *)

Init ==
    /\ pc = [t \in Threads |-> "idle"]
    /\ inputs = [t \in Threads |-> <<>>]
    /\ nrecs = [h \in Handles \cup {NULL} |-> -1]
    /\ closeCount = [h \in Handles \cup {NULL} |-> 0]
    /\ result = [t \in Threads |-> NoResult]
    /\ mem = [a \in Threads |-> NoAcc]
    /\ loop = [t \in Threads |-> NoLoop]
    /\ cb = [t \in Threads |-> NoCb]
    /\ log = [t \in Threads |-> <<>>]
    /\ deliv = [t \in Threads |-> <<>>]
    /\ drops = [t \in Threads |-> <<>>]
    /\ starts = [t \in Threads |-> 0]
    /\ found = [t \in Threads |-> NoFound]

\* a panic inside the extern "C" adapter aborts the process
Running == \A t \in Threads : pc[t] # "abort"

\* thread t is between two calls and holds no unconsumed return value
Ready(t) == Running /\ pc[t] = "idle" /\ result[t].kind = "none"

(* ---------------------- Input::new, Drop for Input -------------------- *)

\* Input::new with the null check left out
InputNew_NoNullCheck(h) == Ok_Input(h)

\* Input::new, given the handle tracecmd_open returned
InputNewResult(h) == IF h = NULL THEN Err_Open(h) ELSE Ok_Input(h)

\* Input::new(path): tracecmd_open returns null or the handle of the path
InputNew(t) ==
    /\ Ready(t)
    /\ \E p \in PathsOf(t) :
          /\ nrecs[p] = -1
          /\ \/ /\ result' = [result EXCEPT ![t] = InputNewResult(NULL)]
                /\ UNCHANGED nrecs
             \/ \E n \in 0..MaxRecs :
                   /\ result' = [result EXCEPT ![t] = InputNewResult(p)]
                   /\ nrecs' = [nrecs EXCEPT ![p] = n]
    /\ UNCHANGED <<pc, inputs, closeCount, mem, loop, cb, log, deliv, drops,
                   starts, found>>

\* the caller binds the Input that Input::new returned, or sees the error
TakeNew(t) ==
    /\ Running
    /\ pc[t] = "idle"
    /\ result[t].kind = "new"
    /\ inputs' = [inputs EXCEPT ![t] =
                     IF result[t].ok THEN Append(@, result[t].input) ELSE @]
    /\ result' = [result EXCEPT ![t] = NoResult]
    /\ UNCHANGED <<pc, nrecs, closeCount, mem, loop, cb, log, deliv, drops,
                   starts, found>>

\* Drop for Input: tracecmd_close(self.0)
DropInput(t) ==
    /\ Ready(t)
    /\ \E i \in 1..Len(inputs[t]) :
          /\ closeCount' = [closeCount EXCEPT ![inputs[t][i]] = @ + 1]
          /\ inputs' = [inputs EXCEPT ![t] = RemoveAt(@, i)]
    /\ UNCHANGED <<pc, nrecs, result, mem, loop, cb, log, deliv, drops,
                   starts, found>>

(* -------------------- Handler::process, process_multi ----------------- *)

\* a shared static slot instead of the local of the call
DataPtr_Shared(t) == 1

\* &mut data as *mut c_void: the address of the `data` local of thread t's call
DataPtr(t) == t

\* process_multi passing one handle too few
NrHandles_OffByOne(t) == Len(inputs[t]) - 1

\* nr_handles of process_multi
NrHandles(t) == Len(inputs[t])

\* the handles process_multi collects from its inputs
HandlesOf(t) == inputs[t]

\* let mut data = Default::default(), then the call of the native loop
StartLoop(t, kind, handles, nr) ==
    /\ drops' = [drops EXCEPT ![t] = <<0>>]
    /\ mem' = [mem EXCEPT ![DataPtr(t)] = [count |-> 0, res |-> <<t, 1>>]]
    /\ loop' = [loop EXCEPT ![t] =
                   [kind |-> kind, handles |-> handles, nr |-> nr,
                    raw |-> DataPtr(t), stop |-> 0, ret |-> 0]]
    /\ starts' = [starts EXCEPT ![t] = @ + 1]
    /\ log' = [log EXCEPT ![t] = <<>>]
    /\ deliv' = [deliv EXCEPT ![t] = <<>>]
    /\ pc' = [pc EXCEPT ![t] = "loop"]
    /\ UNCHANGED <<inputs, nrecs, closeCount, result, cb, found>>

\* Handler::process(input) up to the call of tracecmd_iterate_events
Process(t) ==
    /\ Ready(t)
    /\ \E i \in 1..Len(inputs[t]) :
          StartLoop(t, "process", <<inputs[t][i]>>, 1)

\* Handler::process_multi(inputs) up to the call of tracecmd_iterate_events_multi
ProcessMulti(t) ==
    /\ Ready(t)
    /\ StartLoop(t, "process_multi", HandlesOf(t), NrHandles(t))

(* --------- the native loop: tracecmd_iterate_events(_multi) ----------- *)

\* the loop invokes the adapter for the next record of one of its handles,
\* with that handle, the record, and the opaque pointer it was given
Deliver(t) ==
    /\ Running
    /\ pc[t] = "loop"
    /\ loop[t].stop = 0
    /\ \E i \in 1..loop[t].nr :
          /\ Remaining(t, i) > 0
          /\ deliv' = [deliv EXCEPT ![t] = Append(@, <<i, Count(t, i) + 1>>)]
          /\ cb' = [cb EXCEPT ![t] =
                       [NoCb EXCEPT !.input = loop[t].handles[i],
                                    !.rec = <<loop[t].handles[i], Count(t, i) + 1>>,
                                    !.raw = loop[t].raw]]
    /\ pc' = [pc EXCEPT ![t] = "cb_enter"]
    /\ UNCHANGED <<inputs, nrecs, closeCount, result, mem, loop, log, drops,
                   starts, found>>

\* the records are exhausted: the loop returns 0
LoopEnd(t) ==
    /\ Running
    /\ pc[t] = "loop"
    /\ loop[t].stop = 0
    /\ \A i \in 1..loop[t].nr : Remaining(t, i) = 0
    /\ loop' = [loop EXCEPT ![t].ret = 0]
    /\ pc' = [pc EXCEPT ![t] = "ret"]
    /\ UNCHANGED <<inputs, nrecs, closeCount, result, mem, cb, log, deliv,
                   drops, starts, found>>

\* the adapter returned nonzero: the loop stops and returns that status
LoopStop(t) ==
    /\ Running
    /\ pc[t] = "loop"
    /\ loop[t].stop # 0
    /\ loop' = [loop EXCEPT ![t].ret = loop[t].stop]
    /\ pc' = [pc EXCEPT ![t] = "ret"]
    /\ UNCHANGED <<inputs, nrecs, closeCount, result, mem, cb, log, deliv,
                   drops, starts, found>>

\* the native library fails by itself between two records
NativeFail(t) ==
    /\ Running
    /\ pc[t] = "loop"
    /\ loop[t].stop = 0
    /\ \E e \in NativeErrs : loop' = [loop EXCEPT ![t].ret = e]
    /\ pc' = [pc EXCEPT ![t] = "ret"]
    /\ UNCHANGED <<inputs, nrecs, closeCount, result, mem, cb, log, deliv,
                   drops, starts, found>>

\* the loop runs on a handle that tracecmd_close has already released: beside
\* going on or failing, the native code may crash the process
NativeCrash(t) ==
    /\ Running
    /\ pc[t] = "loop"
    /\ \E i \in 1..loop[t].nr : closeCount[loop[t].handles[i]] > 0
    /\ pc' = [pc EXCEPT ![t] = "abort"]
    /\ UNCHANGED <<inputs, nrecs, closeCount, result, mem, loop, cb, log, deliv,
                   drops, starts, found>>

(* ----------------------------- c_callback ----------------------------- *)

\* let mut input = Input(input); let mut rec = Record(rec);
\* let mut data = Default::default();
CbEnter(t) ==
    /\ Running
    /\ pc[t] = "cb_enter"
    /\ drops' = [drops EXCEPT ![t] = Append(@, 0)]
    /\ cb' = [cb EXCEPT ![t].wrapper = cb[t].input,
                        ![t].dflt = <<t, Len(drops[t]) + 1>>,
                        ![t].data = [count |-> 0, res |-> <<t, Len(drops[t]) + 1>>]]
    /\ pc' = [pc EXCEPT ![t] = "cb_copyin"]
    /\ UNCHANGED <<inputs, nrecs, closeCount, result, mem, loop, log, deliv,
                   starts, found>>

\* copy_nonoverlapping(raw_data, &mut data, size_of): the bytes at the opaque
\* pointer replace the bytes of the transient; no teardown of what they replace
CbCopyIn(t) ==
    /\ Running
    /\ pc[t] = "cb_copyin"
    /\ cb' = [cb EXCEPT ![t].data = mem[cb[t].raw]]
    /\ pc' = [pc EXCEPT ![t] = "cb_call"]
    /\ UNCHANGED <<inputs, nrecs, closeCount, result, mem, loop, log, deliv,
                   drops, starts, found>>

\* inside T::callback(&mut input, ...): the per-event function opens another
\* file of its own and swaps it with the Input it was lent,
\*     let mut other = Input::new(path)?; std::mem::swap(input, &mut other);
\* `other`, which now holds the handle under iteration, is dropped when the
\* function returns; the adapter's wrapper holds the new handle from then on
CbSwapInput(t) ==
    /\ Running
    /\ pc[t] = "cb_call"
    /\ cb[t].wrapper = cb[t].input
    /\ \E p \in PathsOf(t), n \in 0..MaxRecs :
          /\ nrecs[p] = -1
          /\ InputNewResult(p).ok
          /\ nrecs' = [nrecs EXCEPT ![p] = n]
          /\ cb' = [cb EXCEPT ![t].wrapper = InputNewResult(p).input]
    /\ closeCount' = [closeCount EXCEPT ![cb[t].wrapper] = @ + 1]
    /\ UNCHANGED <<pc, inputs, result, mem, loop, log, deliv, drops, starts, found>>

\* let res = T::callback(&mut input, &mut rec, cpu, &mut data): the per-event
\* function counts the record, may replace the resource its accumulator owns
\* (tearing the old one down), and returns any status
CbCall(t) ==
    /\ Running
    /\ pc[t] = "cb_call"
    /\ \E st \in {0} \cup StopCodes, replace \in BOOLEAN :
          LET seen == cb[t].data
              left == [count |-> seen.count + 1,
                       res |-> IF replace THEN <<t, Len(drops[t]) + 1>>
                               ELSE seen.res]
          IN  /\ drops' = IF replace
                          THEN [DropRes(drops, seen.res) EXCEPT ![t] = Append(@, 0)]
                          ELSE drops
              /\ cb' = [cb EXCEPT ![t].data = left, ![t].res = st]
              /\ log' = [log EXCEPT ![t] =
                            Append(@, [input |-> cb[t].input, rec |-> cb[t].rec,
                                       dflt |-> cb[t].dflt, seen |-> seen, left |-> left, status |-> st])]
    /\ found' = [found EXCEPT ![t] = NoFound]
    /\ pc' = [pc EXCEPT ![t] = "cb_copyout"]
    /\ UNCHANGED <<inputs, nrecs, closeCount, result, mem, loop, deliv, starts>>

\* the write-back left out
CbCopyOut_Skipped(t) ==
    /\ Running
    /\ pc[t] = "cb_copyout"
    /\ pc' = [pc EXCEPT ![t] = "cb_forget"]
    /\ UNCHANGED <<inputs, nrecs, closeCount, result, mem, loop, cb, log, deliv,
                   drops, starts, found>>

\* copy_nonoverlapping(&mut data, raw_data, size_of): the write-back
CbCopyOut(t) ==
    /\ Running
    /\ pc[t] = "cb_copyout"
    /\ mem' = [mem EXCEPT ![cb[t].raw] = cb[t].data]
    /\ pc' = [pc EXCEPT ![t] = "cb_forget"]
    /\ UNCHANGED <<inputs, nrecs, closeCount, result, loop, cb, log, deliv,
                   drops, starts, found>>

\* std::mem::forget(input): the wrapper goes without Drop for Input
ForgetInput(t) == UNCHANGED closeCount

\* the transient dropped at the end of the adapter: its teardown runs
ForgetData_Dropped(t) == drops' = DropRes(drops, cb[t].data.res)

\* std::mem::forget(data): the transient goes without its teardown
ForgetData(t) == UNCHANGED drops

\* the adapter returning 0 whatever the per-event function returned
AdapterStatus_Zero(t) == 0

\* res, the value the adapter returns to the native loop
AdapterStatus(t) == cb[t].res

\* std::mem::forget(input); std::mem::forget(data); res
CbReturn(t) ==
    /\ Running
    /\ pc[t] = "cb_forget"
    /\ ForgetInput(t)
    /\ ForgetData(t)
    /\ loop' = [loop EXCEPT ![t].stop = AdapterStatus(t)]
    /\ cb' = [cb EXCEPT ![t] = NoCb]
    /\ pc' = [pc EXCEPT ![t] = "loop"]
    /\ UNCHANGED <<inputs, nrecs, result, mem, log, deliv, starts, found>>

(* ------------------- the return of process(_multi) -------------------- *)

\* success whatever the native loop returned
ProcessResult_AlwaysOk(ret, data) == Ok_Data(data)

\* if ret == 0 { Ok(data) } else { Err(ret) }
ProcessResult(ret, data) == IF ret = 0 THEN Ok_Data(data) ELSE Err_Code(ret)

\* the native loop has returned: `data` is moved into Ok(data), or it goes out
\* of scope with Err(ret) and is torn down
ProcessReturn(t) ==
    /\ Running
    /\ pc[t] = "ret"
    /\ LET data == mem[DataPtr(t)]
           r == ProcessResult(loop[t].ret, data)
       IN  /\ result' = [result EXCEPT ![t] = r]
           /\ drops' = IF r.ok THEN drops ELSE DropRes(drops, data.res)
    /\ mem' = [mem EXCEPT ![DataPtr(t)] = NoAcc]
    /\ pc' = [pc EXCEPT ![t] = "idle"]
    /\ UNCHANGED <<inputs, nrecs, closeCount, loop, cb, log, deliv, starts, found>>

\* the caller is done with what process(_multi) returned: an accumulator it
\* received is torn down
DropResult(t) ==
    /\ Running
    /\ pc[t] = "idle"
    /\ result[t].kind = "process"
    /\ drops' = IF result[t].ok THEN DropRes(drops, result[t].acc.res) ELSE drops
    /\ result' = [result EXCEPT ![t].kind = "dropped"]
    /\ UNCHANGED <<pc, inputs, nrecs, closeCount, mem, loop, cb, log, deliv,
                   starts, found>>

\* the caller's statement is over: nothing of the finished call remains
Retire(t) ==
    /\ Running
    /\ pc[t] = "idle"
    /\ result[t].kind = "dropped"
    /\ result' = [result EXCEPT ![t] = NoResult]
    /\ loop' = [loop EXCEPT ![t] = NoLoop]
    /\ log' = [log EXCEPT ![t] = <<>>]
    /\ deliv' = [deliv EXCEPT ![t] = <<>>]
    /\ drops' = [drops EXCEPT ![t] = <<>>]
    /\ starts' = [starts EXCEPT ![t] = 0]
    /\ UNCHANGED <<pc, inputs, nrecs, closeCount, mem, cb, found>>

(* -------------------------- Input::find_event ------------------------- *)

\* cptr_to_string: CStr::from_ptr(ptr).to_str().map_err(InvalidString)?.to_string()
CptrToString(bytes) ==
    IF Utf8Valid(bytes) THEN [ok |-> TRUE, str |-> bytes]
    ELSE [ok |-> FALSE, str |-> <<>>]

\* Input::find_event, given what tracecmd_get_tep and tep_find_event_by_record
\* return and the bytes of the event's name; .expect("string") panics on Err
FindEventResult(tep, ev, bytes) ==
    IF tep = NULL
    THEN [NoFound EXCEPT !.kind = "Err", !.err = "Handle"]
    ELSE IF ev = NULL
    THEN [NoFound EXCEPT !.kind = "Err", !.err = "FindEvent", !.looked = TRUE,
                         !.tep = tep]
    ELSE IF ~CptrToString(bytes).ok
    THEN [NoFound EXCEPT !.kind = "panic", !.looked = TRUE, !.tep = tep,
                         !.ev = ev, !.bytes = bytes]
    ELSE [NoFound EXCEPT !.kind = "Ok", !.looked = TRUE, !.tep = tep, !.ev = ev,
                         !.bytes = bytes, !.name = CptrToString(bytes).str]

\* the per-event function calls input.find_event(rec) on the record it was given
FindEvent(t) ==
    /\ Running
    /\ pc[t] = "cb_call"
    /\ found[t].kind = "none"
    /\ \E tep \in {NULL} \cup NonNull :
          \E ev \in IF tep = NULL THEN {NULL} ELSE {NULL} \cup NonNull :
             \E bytes \in IF ev = NULL THEN {<<>>} ELSE Names :
                LET f == FindEventResult(tep, ev, bytes)
                IN  /\ found' = [found EXCEPT ![t] = f]
                    /\ pc' = [pc EXCEPT ![t] =
                                 IF f.kind = "panic" THEN "abort" ELSE @]
    /\ UNCHANGED <<inputs, nrecs, closeCount, result, mem, loop, cb, log, deliv,
                   drops, starts>>

(* ------------------------------- Spec --------------------------------- *)

\* one step of the caller thread t, of the native loop it is blocked in, or of
\* the adapter that loop invoked
Step(t) ==
    \/ InputNew(t)
    \/ TakeNew(t)
    \/ DropInput(t)
    \/ Process(t)
    \/ ProcessMulti(t)
    \/ Deliver(t)
    \/ LoopEnd(t)
    \/ LoopStop(t)
    \/ NativeFail(t)
    \/ NativeCrash(t)
    \/ CbEnter(t)
    \/ CbCopyIn(t)
    \/ FindEvent(t)
    \/ CbSwapInput(t)
    \/ CbCall(t)
    \/ CbCopyOut(t)
    \/ CbReturn(t)
    \/ ProcessReturn(t)
    \/ DropResult(t)
    \/ Retire(t)

\* one caller: opens its files, iterates them any number of times, closes them
Next == \E t \in {1} : Step(t)

Spec == Init /\ [][Next]_vars

\* two callers on two threads, each with its own capture already open, each
\* running iteration calls; their steps interleave in every order
InitConc ==
    /\ pc = [t \in Threads |-> "idle"]
    /\ inputs = [t \in Threads |-> <<2 * t - 1>>]
    /\ nrecs \in [Handles \cup {NULL} -> -1..MaxRecs]
    /\ \A t \in Threads : nrecs[2 * t - 1] >= 0 /\ nrecs[2 * t] = -1
    /\ nrecs[NULL] = -1
    /\ closeCount = [h \in Handles \cup {NULL} |-> 0]
    /\ result = [t \in Threads |-> NoResult]
    /\ mem = [a \in Threads |-> NoAcc]
    /\ loop = [t \in Threads |-> NoLoop]
    /\ cb = [t \in Threads |-> NoCb]
    /\ log = [t \in Threads |-> <<>>]
    /\ deliv = [t \in Threads |-> <<>>]
    /\ drops = [t \in Threads |-> <<>>]
    /\ starts = [t \in Threads |-> 0]
    /\ found = [t \in Threads |-> NoFound]

StepConc(t) ==
    \/ Process(t)
    \/ ProcessMulti(t)
    \/ Deliver(t)
    \/ LoopEnd(t)
    \/ LoopStop(t)
    \/ NativeFail(t)
    \/ CbEnter(t)
    \/ CbCopyIn(t)
    \/ CbCall(t)
    \/ CbCopyOut(t)
    \/ CbReturn(t)
    \/ ProcessReturn(t)
    \/ DropResult(t)
    \/ Retire(t)

NextConc == \E t \in Threads : StepConc(t)

SpecConc == InitConc /\ [][NextConc]_vars

(* ------------------------------ claims -------------------------------- *)

\* the accumulator a call of thread t starts from
InitialAcc(t) == [count |-> 0, res |-> <<t, 1>>]

\* the accumulator the last invocation of the per-event function left behind
FinalAcc(t) ==
    IF log[t] = <<>> THEN InitialAcc(t) ELSE log[t][Len(log[t])].left

\* the call of thread t has returned and the caller holds what it returned
Returned(t) == pc[t] = "idle" /\ result[t].kind = "process"

\* every invocation of the per-event function so far returned 0
AllZero(t) == \A i \in 1..Len(log[t]) : log[t][i].status = 0

\* every invocation saw what the one before it left, the first the default
Threaded(t) ==
    \A i \in 1..Len(log[t]) :
       log[t][i].seen = IF i = 1 THEN InitialAcc(t) ELSE log[t][i - 1].left

Torn(r) == drops[r[1]][r[2]]

RECURSIVE SumRecs(_)
SumRecs(hs) == IF hs = <<>> THEN 0 ELSE nrecs[Head(hs)] + SumRecs(Tail(hs))

Range(s) == {s[i] : i \in 1..Len(s)}

C2_StopsAtNonzero ==
    \A t \in Threads :
       /\ \A i \in 1..(Len(log[t]) - 1) : log[t][i].status = 0
       /\ (Returned(t) /\ log[t] # <<>> /\ log[t][Len(log[t])].status # 0) =>
             /\ Len(deliv[t]) = Len(log[t])
             /\ ~result[t].ok
             /\ result[t].code = log[t][Len(log[t])].status
             /\ result[t].acc = NoAcc

C2_Witness ==
    /\ Returned(1)
    /\ loop[1].kind = "process"
    /\ nrecs[loop[1].handles[1]] = 2
    /\ Len(log[1]) = 1
    /\ log[1][1].status = 2
    /\ result[1].code = 2
    /\ ~result[1].ok

\* a handle is owned by an Input of a caller (or by one Input::new just returned)
Owned(h) ==
    \E t \in Threads :
       \/ h \in Range(inputs[t])
       \/ result[t].kind = "new" /\ result[t].ok /\ result[t].input = h

\* C3: tracecmd_close has run on a handle exactly once if the Input that
\* Input::new returned for it has been destroyed, and never otherwise: not
\* during an adapter invocation, not before process returns, and never twice.
C3_CloseExactlyOnce ==
    \A h \in Handles :
       closeCount[h] = IF nrecs[h] >= 0 /\ ~Owned(h) THEN 1 ELSE 0

\* the one authoritative accumulator of the running call of thread t: the
\* transient of the adapter from the copy-in to the write-back, the slot behind
\* the opaque pointer otherwise
Authoritative(t) ==
    IF pc[t] \in {"cb_call", "cb_copyout"} THEN cb[t].data ELSE mem[t]

\* C4: no resource is torn down twice; while a call runs the resource of its
\* authoritative accumulator is not torn down; after a successful return it is
\* the caller's and is torn down once when the caller drops it; after a failure
\* the call itself has torn it down once.
C4_OneOwnerOneTeardown ==
    \A t \in Threads :
       /\ \A k \in 1..Len(drops[t]) : drops[t][k] <= 1
       /\ pc[t] \notin {"idle", "abort"} =>
             /\ Authoritative(t) # NoAcc
             /\ Torn(Authoritative(t).res) = 0
       /\ pc[t] \in {"loop", "ret", "cb_enter"} => cb[t].data = NoAcc
       /\ pc[t] = "cb_forget" => mem[t] = cb[t].data
       /\ (Returned(t) /\ result[t].ok) =>
             result[t].acc = FinalAcc(t) /\ Torn(FinalAcc(t).res) = 0
       /\ (Returned(t) /\ ~result[t].ok) => Torn(FinalAcc(t).res) = 1
       /\ (pc[t] = "idle" /\ result[t].kind = "dropped") =>
             Torn(FinalAcc(t).res) = 1

C4_Witness ==
    /\ pc[1] = "idle"
    /\ result[1].kind = "dropped"
    /\ result[1].ok
    /\ Len(log[1]) = 2
    /\ log[1][1].left.res # <<1, 1>>
    /\ FinalAcc(1).res = log[1][1].left.res

C6_ResultFollowsNativeReturn ==
    \A t \in Threads :
       /\ starts[t] <= 1
       /\ pc[t] \notin {"idle", "abort"} => starts[t] = 1
       /\ Returned(t) =>
             /\ starts[t] = 1
             /\ result[t].ok <=> loop[t].ret = 0
             /\ loop[t].ret = 0 => result[t].acc = FinalAcc(t)
             /\ loop[t].ret # 0 =>
                   /\ result[t].err = "code"
                   /\ result[t].code = loop[t].ret
                   /\ result[t].acc = NoAcc
                   /\ Torn(FinalAcc(t).res) = 1

C6_Witness ==
    /\ Returned(1)
    /\ loop[1].kind = "process_multi"
    /\ loop[1].ret = -1
    /\ Len(log[1]) = 2
    /\ AllZero(1)
    /\ ~result[1].ok
    /\ result[1].code = -1

\* C7: find_event never crashes: it returns the handle error when there is no
\* parser context, without looking the event up; the event-lookup error when
\* no event matches; an encoding error when the name is not valid text; and an
\* Event with the decoded name otherwise.
C7_FindEventReportsErrors ==
    \A t \in Threads :
       /\ found[t].kind # "panic"
       /\ pc[t] # "abort"
       /\ found[t].kind = "Err" =>
             \/ found[t].err = "Handle" /\ found[t].tep = NULL /\ ~found[t].looked
             \/ found[t].err = "FindEvent" /\ found[t].tep # NULL /\ found[t].ev = NULL
             \/ found[t].err = "InvalidString" /\ ~Utf8Valid(found[t].bytes)
       /\ found[t].kind = "Ok" =>
             /\ found[t].tep # NULL
             /\ found[t].ev # NULL
             /\ Utf8Valid(found[t].bytes)
             /\ found[t].name = found[t].bytes

\* C8: Input::new returns the open error exactly when tracecmd_open returned
\* null, and then no Input exists for it: no caller owns a null handle and
\* tracecmd_close never runs on one; otherwise the Input returned holds the
\* handle tracecmd_open returned.
C8_OpenErrorIffNull ==
    /\ closeCount[NULL] = 0
    /\ \A t \in Threads :
          /\ NULL \notin Range(inputs[t])
          /\ result[t].kind = "new" =>
                /\ result[t].ok <=> result[t].native # NULL
                /\ ~result[t].ok <=> result[t].err = "Open"
                /\ result[t].ok => result[t].input = result[t].native
                /\ ~result[t].ok => result[t].input = NULL

C8_Witness ==
    /\ result[1].kind = "new"
    /\ result[1].native = NULL
    /\ result[1].err = "Open"
    /\ Len(inputs[1]) = 1
    /\ closeCount[inputs[1][1]] = 0

\* the resources acquired by the default constructions of the call of thread t:
\* the one at the start of the call and the transient of each invocation
Defaults(t) ==
    (IF drops[t] = <<>> THEN {} ELSE {<<t, 1>>})
        \cup {log[t][i].dflt : i \in 1..Len(log[t])}

\* C9: when a call has returned, every resource acquired by a default
\* construction during the call is the one of the returned accumulator or has
\* been torn down exactly once.
C9_DefaultsAccounted ==
    \A t \in Threads :
       Returned(t) =>
          \A r \in Defaults(t) :
             \/ Torn(r) = 1
             \/ result[t].ok /\ result[t].acc.res = r /\ Torn(r) = 0

\* C10: under every interleaving of two calls on two threads, each call's
\* per-event function sees only the accumulator of its own call, as it would
\* alone: the default first, then what its own previous invocation left; the
\* slot of a call holds what its own adapter wrote back last; and the call
\* returns what its own invocations and its own native loop determine.
C10_CallsDoNotInterfere ==
    \A t \in Threads :
       /\ Threaded(t)
       /\ \A i \in 1..Len(log[t]) :
             log[t][i].seen.res[1] = t /\ log[t][i].seen.count = i - 1
       /\ pc[t] \in {"loop", "ret", "cb_enter", "cb_copyin", "cb_forget"} =>
             mem[t] = FinalAcc(t)
       /\ pc[t] = "idle" => mem[t] = NoAcc
       /\ Returned(t) =>
             /\ loop[t].ret = 0 => result[t].ok /\ result[t].acc = FinalAcc(t)
             /\ loop[t].ret # 0 => ~result[t].ok /\ result[t].code = loop[t].ret
             /\ (log[t] # <<>> /\ log[t][Len(log[t])].status # 0) =>
                   loop[t].ret = log[t][Len(log[t])].status

C10_Witness ==
    /\ pc[1] = "cb_copyout"
    /\ pc[2] = "cb_call"
    /\ Len(log[1]) = 2
    /\ Len(log[2]) = 1
    /\ log[1][2].seen = log[1][1].left
    /\ mem[2] = log[2][1].left

====
